---------------------------- MODULE Spec2Model ----------------------------
(***************************************************************************)
(* State-machine model of the SillyTavern "chat-name" extension.           *)
(*                                                                         *)
(* Two builds of the extension are in the repository: the full one         *)
(* (src/README.md, lines 25-388: name cache, persistent message names, DOM *)
(* synchronizer, mutation observer) and the reduced one (src/index.js:     *)
(* input field, macro override, character-name hook).  The state machine   *)
(* below follows the full build; definitions taken from the reduced build  *)
(* carry the suffix Idx.                                                   *)
(*                                                                         *)
(* JavaScript strings are sequences of one-character strings, so that      *)
(* trim(), includes(), split() and decodeURIComponent() are computed and   *)
(* not assumed.  The value undefined is the one-element sequence           *)
(* <<"undefined">>.                                                        *)
(***************************************************************************)
EXTENDS Integers, Sequences, FiniteSets, TLC

\* ------------------------------------------------------------------------
\* JavaScript values and string primitives
\* ------------------------------------------------------------------------

Undefined == <<"undefined">>

Empty == <<>>

\* JavaScript truthiness of a string-or-undefined value
Truthy(s) == s # Undefined /\ s # Empty

\* a || b on string-or-undefined values
OrElse(a, b) == IF Truthy(a) THEN a ELSE b

RECURSIVE TrimStart(_)
TrimStart(s) ==
    IF s = Empty THEN s
    ELSE IF Head(s) = " " THEN TrimStart(Tail(s)) ELSE s

RECURSIVE TrimEnd(_)
TrimEnd(s) ==
    IF s = Empty THEN s
    ELSE IF s[Len(s)] = " " THEN TrimEnd(SubSeq(s, 1, Len(s) - 1)) ELSE s

\* String.prototype.trim with the optional-chaining call  x?.trim()
trim(s) == IF s = Undefined THEN Undefined ELSE TrimEnd(TrimStart(s))

\* String.prototype.includes
includes(s, t) ==
    \E i \in 1..(Len(s) - Len(t) + 1) : SubSeq(s, i, i + Len(t) - 1) = t

\* str.split('/').pop(): the part after the last '/'
RECURSIVE AfterLastSlash(_)
AfterLastSlash(s) ==
    IF \E i \in 1..Len(s) : s[i] = "/"
    THEN AfterLastSlash(SubSeq(s, (CHOOSE i \in 1..Len(s) : s[i] = "/") + 1, Len(s)))
    ELSE s

\* str.split('?')[0]: the part before the first '?'
RECURSIVE BeforeQuery(_)
BeforeQuery(s) ==
    IF s = Empty THEN s
    ELSE IF Head(s) = "?" THEN Empty
    ELSE <<Head(s)>> \o BeforeQuery(Tail(s))

\* decodeURIComponent: the element "%61" is the escape of "a"; "%20" of " ".
DecodeChar(ch) ==
    IF ch = "%61" THEN "a" ELSE IF ch = "%20" THEN " " ELSE ch

decodeURIComponent(s) == [i \in 1..Len(s) |-> DecodeChar(s[i])]


\* ------------------------------------------------------------------------
\* Bounds and the host data the model draws from
\* ------------------------------------------------------------------------

\* longest transcript the host builds
MaxChat == 2

INIT_TIMEOUT == 10000

INIT_CHECK_INTERVAL == 100

Bob == <<"B", "o", "b">>

\* a card name that carries leading and trailing whitespace
PadEd == <<" ", "E", "d", " ">>

\* The host's character list.  A character is its avatar key, its card name
\* and the value stored under data.extensions['chat-name'].chatName.
Character(avatar, name, chatName) ==
    [avatar |-> avatar, name |-> name, chatName |-> chatName]

\* the host's list: the first character has an override, the second none;
\* or a host whose context has no characters (ctx.characters empty or
\* missing, and then no character is selected)
CharacterLists ==
    { << Character(<<"a">>, Bob, <<"M">>), Character(<<"b">>, PadEd, Undefined) >>,
      << >> }

\* what a user can type into #chat_name_input
InputValues == {Empty, <<" ", "R", " ">>}

\* A chat message as the host creates it.  name is the plain data property
\* (after applyPersistentName: the closure variable originalName);
\* processed says the message is in processedMessages and its name is the
\* accessor property; chatName is the value the accessor's closure captured.
Message(avatar, force_avatar, original_avatar, name, is_user, is_system) ==
    [avatar |-> avatar, force_avatar |-> force_avatar,
     original_avatar |-> original_avatar, name |-> name,
     is_user |-> is_user, is_system |-> is_system,
     processed |-> FALSE, chatName |-> Undefined]

\* a character message without avatar, whose author name is a card name
ByName == Message(Undefined, Undefined, Undefined, Bob, FALSE, FALSE)

\* a character message whose avatar (with a cache-busting query) is the
\* second character's
ByAvatar == Message(<<"b", "?", "1">>, Undefined, Undefined, <<"E", "d">>, FALSE, FALSE)

\* a character message that matches no character
Unknown == Message(Undefined, Undefined, Undefined, <<"Z">>, FALSE, FALSE)

UserMessage == Message(Undefined, <<"u">>, Undefined, <<"U">>, TRUE, FALSE)

SystemMessage == Message(Undefined, Undefined, Undefined, <<"S">>, FALSE, TRUE)

\* how a host renders the name of a message: not at all (the block is not
\* in the page), as the only text of the name element, or as a text node
\* beside an icon
Markups == {"none", "leaf", "kids"}

Entry(message, markup) == [message |-> message, markup |-> markup]

\* the transcripts the host builds, message by message, and how it renders
\* each message
Scripts ==
    { << Entry(ByName, "leaf"), Entry(ByAvatar, "kids") >>,
      << Entry(ByAvatar, "leaf"), Entry(Unknown, "none") >>,
      << Entry(Unknown, "leaf"), Entry(ByName, "kids") >>,
      << Entry(UserMessage, "leaf"), Entry(ByName, "leaf") >>,
      << Entry(SystemMessage, "kids"), Entry(ByAvatar, "kids") >>,
      << Entry(ByName, "leaf"), Entry(UserMessage, "kids"), Entry(ByAvatar, "leaf") >>,
      << Entry(ByAvatar, "leaf"), Entry(SystemMessage, "leaf"), Entry(Unknown, "kids") >> }

Transcripts == {t \in Scripts : Len(t) <= MaxChat}

\* the message as the host created it
Original(message) == [message EXCEPT !.processed = FALSE, !.chatName = Undefined]

\* ------------------------------------------------------------------------
\* Pure functions of the full build
\* ------------------------------------------------------------------------

\* message.name as any reader sees it: the accessor installed by
\* applyPersistentName returns  chatName || originalName
MessageName(message) ==
    IF message.processed THEN OrElse(message.chatName, message.name)
    ELSE message.name

\* results of getCharacterForMessage: a character (by index), null, or the
\* URIError decodeURIComponent raises on a malformed escape
Found(i) == [tag |-> "character", id |-> i]

Null == [tag |-> "null", id |-> 0]

URIError == [tag |-> "URIError", id |-> 0]

\* getCharacterForMessage has not been called
NotCalled == [tag |-> "none", id |-> 0]

\* the data object of a GENERATE_BEFORE_COMBINE_PROMPTS event: was is the
\* name2 the host put into it, name2 what it holds now
PromptData(name2) == [sent |-> TRUE, was |-> name2, name2 |-> name2]

\* no such event has been handled
NoPrompt == [sent |-> FALSE, was |-> Undefined, name2 |-> Undefined]

\* decodeURIComponent raises on a '%' that starts no escape; normalizeAvatar
\* hands it the file name only (path and query already cut off)
Malformed(str) ==
    /\ Truthy(str)
    /\ LET file == BeforeQuery(AfterLastSlash(str))
       IN  \E i \in 1..Len(file) : file[i] = "%"

normalizeAvatar(str) ==
    IF ~Truthy(str) THEN Empty
    ELSE decodeURIComponent(BeforeQuery(AfterLastSlash(str)))

\* ctx.characters.find(c => normalizeAvatar(c.avatar) === target), scanning
\* from index i
RECURSIVE FindByAvatar(_, _, _)
FindByAvatar(chars, i, target) ==
    IF i > Len(chars) THEN Null
    ELSE IF Malformed(chars[i].avatar) THEN URIError
    ELSE IF normalizeAvatar(chars[i].avatar) = target THEN Found(i)
    ELSE FindByAvatar(chars, i + 1, target)

\* Array.prototype.find over ctx.characters: the first of the matching indices
FirstIndex(matches) ==
    IF matches = {} THEN Null
    ELSE Found(CHOOSE i \in matches : \A j \in matches : i <= j)

FuzzyGuard == 2

FuzzyMatch_unguarded(c, name) ==
    LET charName == trim(OrElse(c.name, Empty))
    IN  includes(name, charName) \/ includes(charName, name)

\* the predicate of the fuzzy find: charName.length > 2 && (name.includes(charName)
\* || charName.includes(name))
FuzzyMatch(c, name) ==
    LET charName == trim(OrElse(c.name, Empty))
    IN  Len(charName) > FuzzyGuard /\ (includes(name, charName) \/ includes(charName, name))

getCharacterForMessage(chars, cid, gid, message) ==
    LET avatar == OrElse(message.avatar, OrElse(message.force_avatar, message.original_avatar))
        name == trim(OrElse(MessageName(message), Empty))
        byAvatar == IF Malformed(avatar) THEN URIError
                    ELSE IF Truthy(normalizeAvatar(avatar))
                         THEN FindByAvatar(chars, 1, normalizeAvatar(avatar))
                         ELSE Null
        byOriginal == IF ~Truthy(message.original_avatar) THEN Null
                      ELSE IF Malformed(message.original_avatar) THEN URIError
                      ELSE FindByAvatar(chars, 1, normalizeAvatar(message.original_avatar))
        byName == IF Truthy(name) THEN FirstIndex({i \in 1..Len(chars) : chars[i].name = name}) ELSE Null
        byFuzzy == IF Truthy(name) THEN FirstIndex({i \in 1..Len(chars) : FuzzyMatch(chars[i], name)}) ELSE Null
    IN  IF byAvatar # Null THEN byAvatar
        ELSE IF byOriginal # Null THEN byOriginal
        ELSE IF byName # Null THEN byName
        ELSE IF byFuzzy # Null THEN byFuzzy
        ELSE IF cid # 0 /\ ~gid /\ cid \in 1..Len(chars) THEN Found(cid)
        ELSE Null

getSelectedCharacter(chars, cid) ==
    IF cid = 0 THEN Null
    ELSE IF cid \in 1..Len(chars) THEN Found(cid) ELSE Null

getChatName_untrimmed(chars, character) ==
    IF character.tag # "character" THEN Empty
    ELSE OrElse(chars[character.id].chatName, OrElse(chars[character.id].name, Empty))

getChatName_placeholder(chars, character) ==
    IF character.tag # "character" THEN <<"?">>
    ELSE OrElse(trim(chars[character.id].chatName),
                OrElse(chars[character.id].name, Empty))

\* customName?.trim() || character.name || ''
getChatName(chars, character) ==
    IF character.tag # "character" THEN Empty
    ELSE OrElse(trim(chars[character.id].chatName),
                OrElse(chars[character.id].name, Empty))

\* getChatName of the reduced build:
\*   trimmedChatName || char._originalName || char.name || ''
\* originalName is char._originalName (undefined before hookCharacterName);
\* char.name read outside macro substitution gives the card name
getChatNameIdx(chars, character, originalName) ==
    IF character.tag # "character" THEN Empty
    ELSE OrElse(trim(chars[character.id].chatName),
                OrElse(originalName, OrElse(chars[character.id].name, Empty)))


\* ------------------------------------------------------------------------
\* The rendered chat: one block per message (#chat .mes[mesid=...]).
\* elems lists, in the order of the selector list of
\* applyNameOverrideToElement, the elements the selectors find in the block;
\* an element is the sequence of its child nodes; a node is an element
\* (elem, an icon for instance) or a text node.
\* ------------------------------------------------------------------------

TextNode(t) == [elem |-> FALSE, text |-> t]

IconNode == [elem |-> TRUE, text |-> Empty]

NoBlock == [present |-> FALSE, elems |-> <<>>]

LeafBlock(t) == [present |-> TRUE, elems |-> << <<TextNode(t)>> >>]

KidsBlock(t) == [present |-> TRUE, elems |-> << <<IconNode, TextNode(t)>> >>]

Rendered(markup, t) ==
    IF markup = "none" THEN NoBlock
    ELSE IF markup = "leaf" THEN LeafBlock(t) ELSE KidsBlock(t)

\* element.children.length
ChildElements(e) == Cardinality({j \in 1..Len(e) : e[j].elem})

\* the block re-rendered with name text t, its structure kept
Rerendered(block, t) ==
    IF ChildElements(block.elems[1]) = 0 THEN LeafBlock(t) ELSE KidsBlock(t)

\* element.textContent
RECURSIVE textContent(_)
textContent(e) == IF e = <<>> THEN Empty ELSE Head(e).text \o textContent(Tail(e))

\* element.textContent = t
SetTextContent(t) == IF t = Empty THEN <<>> ELSE <<TextNode(t)>>

FirstTextChild_anyText(e) ==
    IF \E j \in 1..Len(e) : ~e[j].elem
    THEN CHOOSE j \in 1..Len(e) : ~e[j].elem /\ \A k \in 1..(j - 1) : e[k].elem
    ELSE 0

\* the first child that is a text node with non-blank text, or 0
FirstTextChild(e) ==
    LET hit(j) == ~e[j].elem /\ Len(trim(e[j].text)) > 0
    IN  IF \E j \in 1..Len(e) : hit(j)
        THEN CHOOSE j \in 1..Len(e) : hit(j) /\ \A k \in 1..(j - 1) : ~hit(k)
        ELSE 0

\* applyNameOverrideToElement from the k-th found element on: the elements
\* after the call and the number of text writes done (0 or 1)
RECURSIVE ApplyFrom(_, _, _)
ApplyFrom(elems, k, chatName) ==
    IF k > Len(elems) THEN [elems |-> elems, wrote |-> 0]
    ELSE IF ChildElements(elems[k]) = 0
    THEN IF textContent(elems[k]) # chatName
         THEN [elems |-> [elems EXCEPT ![k] = SetTextContent(chatName)], wrote |-> 1]
         ELSE [elems |-> elems, wrote |-> 0]
    ELSE LET j == FirstTextChild(elems[k])
         IN  IF j = 0 THEN ApplyFrom(elems, k + 1, chatName)
             ELSE IF trim(elems[k][j].text) # chatName
             THEN [elems |-> [elems EXCEPT ![k][j].text = chatName], wrote |-> 1]
             ELSE [elems |-> elems, wrote |-> 0]

applyNameOverrideToElement(block, chatName) == ApplyFrom(block.elems, 1, chatName)

\* ------------------------------------------------------------------------
\* The synchronizer.  x is the data a handler run reads and writes:
\*   characters, characterId (0: undefined), groupId, name2, chat, dom,
\*   nameCache, chatObserver, records (message ids with an undelivered
\*   mutation record), writes (ids of the messages whose name text this run
\*   wrote), thrown.
\* ------------------------------------------------------------------------

EmptyCache == [k \in {} |-> Empty]

CharacterAuthored_notUser(message) == ~message.is_user

\* !(message.is_user || message.is_system)
CharacterAuthored(message) == ~message.is_user /\ ~message.is_system

\* updateUIName(messageId)
updateUIName(x, id) ==
    IF id \notin 1..Len(x.chat) THEN x
    ELSE IF ~CharacterAuthored(x.chat[id]) THEN x
    ELSE IF ~x.dom[id].present THEN x
    ELSE LET r == applyNameOverrideToElement(x.dom[id], MessageName(x.chat[id]))
         IN  [x EXCEPT !.dom[id].elems = r.elems,
                       !.writes = IF r.wrote = 1 THEN @ \cup {id} ELSE @,
                       !.records = IF r.wrote = 1 /\ x.chatObserver THEN @ \cup {id} ELSE @]

\* applyPersistentName(message, chatName)
applyPersistentName(message, chatName) ==
    IF message.processed \/ ~Truthy(chatName) THEN message
    ELSE [message EXCEPT !.processed = TRUE, !.chatName = chatName]

cacheKeyOf(message) ==
    OrElse(message.avatar,
           OrElse(message.force_avatar,
                  OrElse(message.original_avatar, MessageName(message))))

SyncMessage_recompute(x, id) ==
    LET message == x.chat[id]
        cacheKey == cacheKeyOf(message)
        character == getCharacterForMessage(x.characters, x.characterId, x.groupId, message)
        chatName == getChatName(x.characters, character)
        cached == IF Truthy(cacheKey)
                  THEN (cacheKey :> chatName) @@ x.nameCache
                  ELSE x.nameCache
    IN  IF ~CharacterAuthored(message) THEN x
        ELSE IF character = URIError THEN [x EXCEPT !.thrown = TRUE]
        ELSE IF ~Truthy(chatName) THEN [x EXCEPT !.nameCache = cached]
        ELSE updateUIName(
                 [x EXCEPT !.nameCache = cached,
                           !.chat[id] = applyPersistentName(message, chatName)],
                 id)

\* the body of ctx.chat.forEach for message id
SyncMessage(x, id) ==
    LET message == x.chat[id]
        cacheKey == cacheKeyOf(message)
        hit == cacheKey \in DOMAIN x.nameCache
        character == getCharacterForMessage(x.characters, x.characterId, x.groupId, message)
        chatName == IF hit THEN x.nameCache[cacheKey]
                    ELSE getChatName(x.characters, character)
        cached == IF ~hit /\ Truthy(cacheKey)
                  THEN (cacheKey :> chatName) @@ x.nameCache
                  ELSE x.nameCache
    IN  IF ~CharacterAuthored(message) THEN x
        ELSE IF ~hit /\ character = URIError THEN [x EXCEPT !.thrown = TRUE]
        ELSE IF ~Truthy(chatName) THEN [x EXCEPT !.nameCache = cached]
        ELSE updateUIName(
                 [x EXCEPT !.nameCache = cached,
                           !.chat[id] = applyPersistentName(message, chatName)],
                 id)

RECURSIVE SyncFrom(_, _)
SyncFrom(x, id) ==
    IF id > Len(x.chat) \/ x.thrown THEN x
    ELSE SyncFrom(SyncMessage(x, id), id + 1)

\* syncChatData
syncChatData(x) ==
    LET chatName == getChatName(x.characters, getSelectedCharacter(x.characters, x.characterId))
        y == IF x.characterId # 0 /\ ~x.groupId /\ Truthy(chatName) /\ x.name2 # chatName
             THEN [x EXCEPT !.name2 = chatName]
             ELSE x
    IN  SyncFrom(y, 1)

updateAllNames_keep(x) == syncChatData(x)

\* updateAllNames
updateAllNames(x) == syncChatData([x EXCEPT !.nameCache = EmptyCache])

\* setupChatObserver; chatDiv says the host page has the #chat container
setupChatObserver(x, chatDiv) ==
    IF ~chatDiv \/ x.chatObserver THEN x ELSE [x EXCEPT !.chatObserver = TRUE]

\* the MutationObserver callback over the undelivered records, oldest
\* message first
RECURSIVE ObserveFrom(_, _, _)
ObserveFrom(x, pending, id) ==
    IF id > Len(x.chat) THEN x
    ELSE IF id \in pending THEN ObserveFrom(updateUIName(x, id), pending, id + 1)
    ELSE ObserveFrom(x, pending, id + 1)


\* ------------------------------------------------------------------------
\* State
\* ------------------------------------------------------------------------

VARIABLES
    interval,       \* the startup poll: "scheduled", "running" or "cleared"
    attempts,       \* waitForContext's counter
    hostReady,      \* window.SillyTavern.getContext() returns a context
    host,           \* what the host page and context offer (a HostProfile)
    characters,     \* ctx.characters
    characterId,    \* ctx.characterId, 0 for undefined
    groupId,        \* ctx.groupId is set
    name2,          \* ctx.name2
    chat,           \* ctx.chat, with each message's name accessor
    dom,            \* the rendered block of each message
    nameCache,      \* nameCache
    chatObserver,   \* chatObserver is set
    records,        \* ids of the messages with an undelivered mutation record
    initialized,
    eventListenersAttached,
    listeners,      \* handlers subscribed per host event
    inputField,     \* #chat_name_input exists
    inputValue,     \* its value
    macroNew,       \* 'char' handler registered with ctx.macros.registry
    macroLegacy,    \* 'char' handler registered with ctx.registerMacro
    macroResult,    \* what the handler returned when the host last called it
    writes,         \* ids of the messages whose name text the last step wrote
    lastOp,         \* the step taken last
    resolved,       \* what getCharacterForMessage returned when last called on its own
    promptData      \* the prompt data the last handleGenerateBeforePrompt call left

vars == << interval, attempts, hostReady, host, characters, characterId, groupId,
           name2, chat, dom, nameCache, chatObserver, records, initialized,
           eventListenersAttached, listeners, inputField, inputValue, macroNew,
           macroLegacy, macroResult, writes, lastOp, resolved, promptData >>

hostVars == << hostReady, host >>

pollVars == << interval, attempts >>

uiVars == << inputField, inputValue >>

macroVars == << macroNew, macroLegacy >>

SyncEvents == {"CHARACTER_MESSAGE_RENDERED", "MESSAGE_UPDATED", "MESSAGE_RECEIVED",
               "STREAM_TOKEN_RECEIVED"}

ContextEvents == {"CHAT_CHANGED", "CHARACTER_SELECTED"}

Events == SyncEvents \cup ContextEvents \cup {"GENERATE_BEFORE_COMBINE_PROMPTS"}

HostProfile(eventSource, eventTypes, macros, registerMacro, tagsDiv, chatDiv) ==
    [eventSource |-> eventSource, eventTypes |-> eventTypes, macros |-> macros,
     registerMacro |-> registerMacro, tagsDiv |-> tagsDiv, chatDiv |-> chatDiv]

\* what a macro engine does with the registration of 'char': the engine is
\* absent, it takes the handler, or it throws
Engines == {"none", "ok", "throws"}

\* the hosts the model runs against: a complete one, one without event
\* source whose new macro engine throws, and one without event-type table
\* whose legacy macro engine throws
HostProfiles ==
    { HostProfile(TRUE, TRUE, "ok", "ok", TRUE, TRUE),
      HostProfile(FALSE, TRUE, "throws", "ok", TRUE, TRUE),
      HostProfile(TRUE, FALSE, "ok", "throws", TRUE, TRUE) }

NoHost == HostProfile(FALSE, FALSE, "none", "none", FALSE, FALSE)

\* the handler data as one record, and back
X == [characters |-> characters, characterId |-> characterId, groupId |-> groupId,
      name2 |-> name2, chat |-> chat, dom |-> dom, nameCache |-> nameCache,
      chatObserver |-> chatObserver, records |-> records, writes |-> {},
      thrown |-> FALSE]

Store(y) ==
    /\ name2' = y.name2
    /\ chat' = y.chat
    /\ dom' = y.dom
    /\ nameCache' = y.nameCache
    /\ chatObserver' = y.chatObserver
    /\ records' = y.records
    /\ writes' = y.writes

Init ==
    /\ interval = "scheduled"
    /\ attempts = 0
    /\ hostReady = FALSE
    /\ host = NoHost
    /\ characters = <<>>
    /\ characterId = 0
    /\ groupId = FALSE
    /\ name2 = Empty
    /\ chat = <<>>
    /\ dom = <<>>
    /\ nameCache = EmptyCache
    /\ chatObserver = FALSE
    /\ records = {}
    /\ initialized = FALSE
    /\ eventListenersAttached = FALSE
    /\ listeners = [e \in Events |-> 0]
    /\ inputField = FALSE
    /\ inputValue = Empty
    /\ macroNew = FALSE
    /\ macroLegacy = FALSE
    /\ macroResult = Undefined
    /\ writes = {}
    /\ lastOp = "start"
    /\ resolved = NotCalled
    /\ promptData = NoPrompt


\* ------------------------------------------------------------------------
\* Handlers of the full build
\* ------------------------------------------------------------------------

\* The host starts a new task: the poll has ended, the page is up, and the
\* microtask checkpoint of the previous task has delivered every mutation
\* record (MutationObserver callbacks are microtasks, they run before the
\* next task).  Only further message events can reach the extension within
\* the same task, ahead of the checkpoint.
Settled == hostReady /\ interval = "cleared" /\ records = {}

maxAttempts_late == INIT_TIMEOUT \div INIT_CHECK_INTERVAL + 1

\* const maxAttempts = INIT_TIMEOUT / INIT_CHECK_INTERVAL
maxAttempts == INIT_TIMEOUT \div INIT_CHECK_INTERVAL

\* the value loadChatNameToField puts into the input
StoredChatName(chars, cid) ==
    LET char == getSelectedCharacter(chars, cid)
    IN  IF char = Null THEN Empty ELSE OrElse(chars[char.id].chatName, Empty)

\* addInputField, on ui = [inputField, inputValue]
addInputField(ui) ==
    IF ui.inputField THEN ui
    ELSE IF ~host.tagsDiv THEN ui
    ELSE [inputField |-> TRUE, inputValue |-> StoredChatName(characters, characterId)]

\* loadChatNameToField
loadChatNameToField(ui, chars, cid) ==
    IF ~ui.inputField THEN ui
    ELSE [ui EXCEPT !.inputValue = StoredChatName(chars, cid)]

UI == [inputField |-> inputField, inputValue |-> inputValue]

StoreUI(ui) ==
    /\ inputField' = ui.inputField
    /\ inputValue' = ui.inputValue

nameGetter_fromName2 == name2

\* nameGetter = () => getChatName(getSelectedCharacter())
nameGetter == getChatName(characters, getSelectedCharacter(characters, characterId))

handleGenerateBeforePrompt_always(chars, cid, data) ==
    LET chatName == getChatName(chars, getSelectedCharacter(chars, cid))
    IN  IF Truthy(chatName) THEN [data EXCEPT !.name2 = chatName] ELSE data

\* handleGenerateBeforePrompt(data)
handleGenerateBeforePrompt(chars, cid, data) ==
    LET chatName == getChatName(chars, getSelectedCharacter(chars, cid))
    IN  IF Truthy(chatName) /\ Truthy(data.name2)
        THEN [data EXCEPT !.name2 = chatName]
        ELSE data

\* the macro registrations as one record, and back; thrown: an exception
\* has left registerMacroOverrides
Macros == [macroNew |-> macroNew, macroLegacy |-> macroLegacy, thrown |-> FALSE]

StoreMacros(r) ==
    /\ macroNew' = r.macroNew
    /\ macroLegacy' = r.macroLegacy

registerNew_uncaught(r) ==
    IF host.macros = "ok" THEN [r EXCEPT !.macroNew = TRUE]
    ELSE IF host.macros = "throws" THEN [r EXCEPT !.thrown = TRUE]
    ELSE r

\* if (ctx.macros) { try { ...registry.registerMacro('char', ...) } catch (e) {} }
registerNew(r) ==
    IF host.macros = "ok" THEN [r EXCEPT !.macroNew = TRUE] ELSE r

\* if (ctx.registerMacro) { try { ctx.registerMacro('char', nameGetter) } catch (e) {} }
registerLegacy(r) ==
    IF r.thrown THEN r
    ELSE IF host.registerMacro = "ok" THEN [r EXCEPT !.macroLegacy = TRUE]
    ELSE r

\* registerMacroOverrides
registerMacroOverrides(r) == registerLegacy(registerNew(r))

\* attachEventListeners(ctx)
attachEventListeners ==
    IF eventListenersAttached \/ ~host.eventSource \/ ~host.eventTypes
    THEN UNCHANGED << eventListenersAttached, listeners >>
    ELSE /\ listeners' = [e \in Events |-> listeners[e] + 1]
         /\ eventListenersAttached' = TRUE

\* the steps of initialize(ctx) after the guard; an exception escaping
\* updateAllNames leaves initialized unset
initialize_body ==
    LET r == registerMacroOverrides(Macros)
        y == updateAllNames(setupChatObserver(X, host.chatDiv))
    IN  /\ StoreUI(addInputField(UI))
        /\ StoreMacros(r)
        /\ IF r.thrown
           THEN /\ UNCHANGED << eventListenersAttached, listeners, name2, chat, dom,
                                nameCache, chatObserver, records, initialized >>
                /\ writes' = {}
           ELSE /\ attachEventListeners
                /\ Store(y)
                /\ initialized' = ~y.thrown

initialize_unguarded == initialize_body

\* initialize(ctx)
initialize ==
    IF initialized
    THEN /\ UNCHANGED << name2, chat, dom, nameCache, chatObserver, records,
                         initialized, eventListenersAttached, listeners,
                         uiVars, macroVars >>
         /\ writes' = {}
    ELSE initialize_body

\* jQuery(waitForContext): the document is ready, the poll starts
waitForContext ==
    /\ interval = "scheduled"
    /\ interval' = "running"
    /\ attempts' = 0
    /\ macroResult' = Undefined
    /\ writes' = {}
    /\ UNCHANGED << hostVars, characters, characterId, groupId, name2, chat, dom,
                    nameCache, chatObserver, records, initialized,
                    eventListenersAttached, listeners, uiVars, macroVars >>
    /\ lastOp' = "waitForContext"
    /\ UNCHANGED << resolved, promptData >>

\* one firing of the setInterval callback.  After clearInterval the counter
\* is unreachable; the model zeroes it when the poll succeeds.
Tick ==
    /\ interval = "running"
    /\ macroResult' = Undefined
    /\ UNCHANGED << hostVars, characters, characterId, groupId >>
    /\ IF hostReady
       THEN /\ interval' = "cleared"
            /\ attempts' = 0
            /\ initialize
       ELSE /\ attempts' = attempts + 1
            /\ interval' = IF attempts + 1 >= maxAttempts THEN "cleared" ELSE "running"
            /\ writes' = {}
            /\ UNCHANGED << name2, chat, dom, nameCache, chatObserver, records,
                            initialized, eventListenersAttached, listeners,
                            uiVars, macroVars >>
    /\ lastOp' = "Tick"
    /\ UNCHANGED << resolved, promptData >>

\* a further call of initialize(ctx) once the controller is Ready
Reinitialize ==
    /\ Settled
    /\ initialized
    /\ initialize
    /\ macroResult' = Undefined
    /\ UNCHANGED << pollVars, hostVars, characters, characterId, groupId >>
    /\ lastOp' = "Reinitialize"
    /\ UNCHANGED << resolved, promptData >>

\* a host event one of whose subscribers is h is delivered
Delivered(evs) == host.eventSource /\ \E e \in evs : listeners[e] > 0

\* CHARACTER_MESSAGE_RENDERED, MESSAGE_UPDATED, MESSAGE_RECEIVED or
\* STREAM_TOKEN_RECEIVED: syncChatData
MessageEvent ==
    /\ Delivered(SyncEvents)
    /\ Store(syncChatData(X))
    /\ macroResult' = Undefined
    /\ UNCHANGED << pollVars, hostVars, characters, characterId, groupId,
                    initialized, eventListenersAttached, listeners, uiVars,
                    macroVars >>
    /\ lastOp' = "MessageEvent"
    /\ UNCHANGED << resolved, promptData >>

\* handleCharacterChange, run in the context (cid, gid) the host switched to
handleCharacterChange(x) ==
    LET y == updateAllNames(x)
    IN  /\ StoreUI(loadChatNameToField(addInputField(UI), x.characters, x.characterId))
        /\ Store(IF y.thrown THEN y ELSE setupChatObserver(y, host.chatDiv))
        /\ macroResult' = Undefined
        /\ UNCHANGED << pollVars, hostVars, characters, initialized,
                        eventListenersAttached, listeners, macroVars >>

\* the card name the host puts into name2 when it opens a chat
HostName2(cid, gid) ==
    IF cid # 0 /\ ~gid /\ cid \in 1..Len(characters) THEN characters[cid].name ELSE name2

\* CHAT_CHANGED: the host has opened a chat (reload: another transcript,
\* which starts empty here; otherwise the same message objects); a chat of
\* another character or of a group is another transcript
ChatChanged ==
    /\ Settled
    /\ Delivered({"CHAT_CHANGED"})
    /\ \E reload \in BOOLEAN, cid \in 0..Len(characters), gid \in BOOLEAN :
         /\ gid => cid <= 1
         /\ (cid # characterId \/ gid # groupId) => reload
         /\ characterId' = cid
         /\ groupId' = gid
         /\ handleCharacterChange(
              [X EXCEPT !.characterId = cid, !.groupId = gid,
                        !.name2 = HostName2(cid, gid),
                        !.chat = IF reload THEN <<>> ELSE @,
                        !.dom = IF reload THEN <<>> ELSE @,
                        !.records = IF reload THEN {} ELSE @])
    /\ lastOp' = "ChatChanged"
    /\ UNCHANGED << resolved, promptData >>

\* CHARACTER_SELECTED: the user picked a character
CharacterSelected ==
    /\ Settled
    /\ Delivered({"CHARACTER_SELECTED"})
    /\ \E cid \in 1..Len(characters) :
         /\ characterId' = cid
         /\ UNCHANGED groupId
         /\ handleCharacterChange([X EXCEPT !.characterId = cid])
    /\ lastOp' = "CharacterSelected"
    /\ UNCHANGED << resolved, promptData >>

\* the MutationObserver callback
ObserverCallback ==
    /\ chatObserver
    /\ records # {}
    /\ Store(ObserveFrom([X EXCEPT !.records = {}], records, 1))
    /\ macroResult' = Undefined
    /\ UNCHANGED << pollVars, hostVars, characters, characterId, groupId,
                    initialized, eventListenersAttached, listeners, uiVars,
                    macroVars >>
    /\ lastOp' = "ObserverCallback"
    /\ UNCHANGED << resolved, promptData >>

\* the 'input' listener of #chat_name_input: the user typed v
InputChange ==
    /\ Settled
    /\ inputField
    /\ \E v \in InputValues :
         /\ inputValue' = v
         /\ characters' = IF hostReady /\ characterId # 0
                          THEN [characters EXCEPT ![characterId].chatName = v]
                          ELSE characters
    /\ macroResult' = Undefined
    /\ writes' = {}
    /\ UNCHANGED << pollVars, hostVars, characterId, groupId, name2, chat, dom,
                    nameCache, chatObserver, records, initialized,
                    eventListenersAttached, listeners, inputField, macroVars >>
    /\ lastOp' = "InputChange"
    /\ UNCHANGED << resolved, promptData >>

\* the host's template engine expands {{char}} through a registered handler
MacroExpand ==
    /\ Settled
    /\ macroNew \/ macroLegacy
    /\ macroResult' = nameGetter
    /\ writes' = {}
    /\ UNCHANGED << pollVars, hostVars, characters, characterId, groupId, name2,
                    chat, dom, nameCache, chatObserver, records, initialized,
                    eventListenersAttached, listeners, uiVars, macroVars >>
    /\ lastOp' = "MacroExpand"
    /\ UNCHANGED << resolved, promptData >>

\* ------------------------------------------------------------------------
\* The host
\* ------------------------------------------------------------------------

\* the host's context becomes available, with an empty chat or with the
\* first message of a transcript already loaded and rendered
HostBecomesReady ==
    /\ ~hostReady
    /\ hostReady' = TRUE
    /\ host' \in HostProfiles
    /\ characters' \in CharacterLists
    /\ characterId' \in {cid \in {0, 1} : cid <= Len(characters')}
    /\ name2' = IF characterId' = 0 THEN Empty ELSE characters'[characterId'].name
    /\ \/ chat' = <<>> /\ dom' = <<>>
       \/ \E t \in Transcripts :
            /\ chat' = << t[1].message >>
            /\ dom' = << IF host'.chatDiv
                         THEN Rendered(t[1].markup, t[1].message.name)
                         ELSE NoBlock >>
    /\ macroResult' = Undefined
    /\ writes' = {}
    /\ UNCHANGED << pollVars, groupId, nameCache, chatObserver, records,
                    initialized, eventListenersAttached, listeners, uiVars,
                    macroVars >>
    /\ lastOp' = "HostBecomesReady"
    /\ UNCHANGED << resolved, promptData >>

\* the host appends a message to the transcript and renders it
HostAddMessage ==
    /\ Settled
    /\ Len(chat) < MaxChat
    /\ \E t \in Transcripts :
         /\ Len(t) > Len(chat)
         /\ \A i \in 1..Len(chat) : Original(chat[i]) = t[i].message
         /\ LET message == t[Len(chat) + 1].message
                block == IF host.chatDiv
                         THEN Rendered(t[Len(chat) + 1].markup, message.name)
                         ELSE NoBlock
            IN
              /\ chat' = Append(chat, message)
              /\ dom' = Append(dom, block)
              /\ records' = IF chatObserver /\ block.present
                            THEN records \cup {Len(chat) + 1} ELSE records
    /\ macroResult' = Undefined
    /\ writes' = {}
    /\ UNCHANGED << pollVars, hostVars, characters, characterId, groupId, name2,
                    nameCache, chatObserver, initialized, eventListenersAttached,
                    listeners, uiVars, macroVars >>
    /\ lastOp' = "HostAddMessage"
    /\ UNCHANGED << resolved, promptData >>

\* the host re-renders the name of message id, from what message.name reads
HostRerender ==
    /\ Settled
    /\ \E id \in 1..Len(chat) :
         /\ dom[id].present
         /\ dom' = [dom EXCEPT ![id] = Rerendered(dom[id], MessageName(chat[id]))]
         /\ records' = IF chatObserver THEN records \cup {id} ELSE records
    /\ macroResult' = Undefined
    /\ writes' = {}
    /\ UNCHANGED << pollVars, hostVars, characters, characterId, groupId, name2,
                    chat, nameCache, chatObserver, initialized,
                    eventListenersAttached, listeners, uiVars, macroVars >>
    /\ lastOp' = "HostRerender"
    /\ UNCHANGED << resolved, promptData >>

Next ==
    \/ waitForContext
    \/ Tick
    \/ Reinitialize
    \/ HostBecomesReady
    \/ MessageEvent
    \/ ChatChanged
    \/ CharacterSelected
    \/ ObserverCallback
    \/ InputChange
    \/ MacroExpand
    \/ HostAddMessage
    \/ HostRerender

Spec == Init /\ [][Next]_vars

\* The browser delivers pending mutation records to the MutationObserver
\* callback (a microtask): the callback cannot stay enabled forever without
\* running.
FairSpec == Spec /\ WF_vars(ObserverCallback)


\* ------------------------------------------------------------------------
\* Name resolution on its own: every card name and override of the sets
\* below, resolved by getChatName of either build
\* ------------------------------------------------------------------------

CardNames == {Bob, PadEd, <<"A">>, <<" ", "A", "l">>, <<"A", " ", "B">>}

Overrides ==
    { Undefined, Empty, <<" ">>, <<" ", " ">>, <<"M">>, <<" ", "M">>, <<"M", " ">>,
      <<" ", "M", " ">>, <<" ", " ", "M", "e", " ">>, <<"M", " ", "N">>,
      <<" ", "M", " ", "N", " ">> }

InitNames ==
    /\ interval = "cleared"
    /\ attempts = 0
    /\ hostReady = TRUE
    /\ host \in {HostProfile(TRUE, TRUE, "ok", "ok", TRUE, TRUE)}
    /\ \E n \in CardNames, o \in Overrides : characters = << Character(<<"a">>, n, o) >>
    /\ characterId \in {0, 1}
    /\ groupId = FALSE
    /\ name2 = Empty
    /\ chat = <<>>
    /\ dom = <<>>
    /\ nameCache = EmptyCache
    /\ chatObserver = FALSE
    /\ records = {}
    /\ initialized = FALSE
    /\ eventListenersAttached = FALSE
    /\ listeners = [e \in Events |-> 0]
    /\ inputField = FALSE
    /\ inputValue = Empty
    /\ macroNew = FALSE
    /\ macroLegacy = FALSE
    /\ macroResult = Undefined
    /\ writes = {}
    /\ lastOp = "start"
    /\ resolved = NotCalled
    /\ promptData = NoPrompt

namesFrame ==
    UNCHANGED << pollVars, hostVars, characters, characterId, groupId, name2, chat, dom,
                 nameCache, chatObserver, records, initialized,
                 eventListenersAttached, listeners, uiVars, macroVars, writes >>

\* getChatName(getSelectedCharacter()) of the full build is called
ResolveName ==
    /\ macroResult = Undefined
    /\ macroResult' = nameGetter
    /\ namesFrame
    /\ lastOp' = "ResolveName"
    /\ UNCHANGED << resolved, promptData >>

\* getChatName() of the reduced build is called, before or after
\* hookCharacterName has stored _originalName
ResolveNameIdx ==
    /\ macroResult = Undefined
    /\ \E hooked \in BOOLEAN :
         LET char == getSelectedCharacter(characters, characterId)
             originalName == IF hooked /\ char # Null
                             THEN characters[char.id].name ELSE Undefined
         IN  macroResult' = getChatNameIdx(characters, char, originalName)
    /\ namesFrame
    /\ lastOp' = "ResolveNameIdx"
    /\ UNCHANGED << resolved, promptData >>

NextNames == ResolveName \/ ResolveNameIdx

SpecNames == InitNames /\ [][NextNames]_vars


\* ------------------------------------------------------------------------
\* Character resolution on its own: getCharacterForMessage on every
\* message and character list of the sets below
\* ------------------------------------------------------------------------

MaxChars == 2

\* characters to resolve to: two that share the normalized avatar "a", one
\* with a two-letter name, one without avatar, one whose avatar file name
\* holds a '%' that starts no escape
ResolverCharacters ==
    { Character(<<"a">>, Bob, Undefined),
      Character(<<"b">>, PadEd, Undefined),
      Character(<<"i", "/", "a">>, <<"A", "l">>, Undefined),
      Character(Undefined, <<"B", "o", "b", "b", "y">>, Undefined),
      Character(<<"%">>, <<"P", "c", "t">>, Undefined) }

ResolverLists ==
    { l \in UNION { [1..n -> ResolverCharacters] : n \in 1..MaxChars } :
        \A i, j \in DOMAIN l : l[i] = l[j] => i = j }

ResolverAvatars ==
    { Undefined, <<"a">>, <<"p", "/", "%61", "?", "v">>, <<"b", "?", "1">>, <<"z">>, <<"%">> }

ResolverNames ==
    { Bob, <<"E", "d">>, <<"A", "l">>, <<"A">>, <<"A", "l", "e", "x">>, <<"B", "o">>,
      <<"B", "o", "b", "s">>, <<"Z">> }

ResolverMessages ==
    { Message(a, Undefined, o, n, FALSE, FALSE) :
        a \in ResolverAvatars, o \in {Undefined, <<"b">>}, n \in ResolverNames }

InitResolver ==
    /\ interval = "cleared"
    /\ attempts = 0
    /\ hostReady = TRUE
    /\ host = HostProfile(TRUE, TRUE, "ok", "ok", TRUE, TRUE)
    /\ characters \in ResolverLists
    /\ characterId \in 0..Len(characters)
    /\ groupId \in BOOLEAN
    /\ name2 = Empty
    /\ \E message \in ResolverMessages : chat = << message >>
    /\ dom = << NoBlock >>
    /\ nameCache = EmptyCache
    /\ chatObserver = FALSE
    /\ records = {}
    /\ initialized = FALSE
    /\ eventListenersAttached = FALSE
    /\ listeners = [e \in Events |-> 0]
    /\ inputField = FALSE
    /\ inputValue = Empty
    /\ macroNew = FALSE
    /\ macroLegacy = FALSE
    /\ macroResult = Undefined
    /\ writes = {}
    /\ lastOp = "start"
    /\ resolved = NotCalled
    /\ promptData = NoPrompt

\* getCharacterForMessage(message) is called
ResolveMessage ==
    /\ resolved = NotCalled
    /\ resolved' = getCharacterForMessage(characters, characterId, groupId, chat[1])
    /\ lastOp' = "ResolveMessage"
    /\ UNCHANGED << pollVars, hostVars, characters, characterId, groupId, name2, chat,
                    dom, nameCache, chatObserver, records, initialized,
                    eventListenersAttached, listeners, uiVars, macroVars,
                    macroResult, writes, promptData >>

NextResolver == ResolveMessage

SpecResolver == InitResolver /\ [][NextResolver]_vars

\* ------------------------------------------------------------------------
\* applyNameOverrideToElement on its own: one message block whose found
\* elements and their child nodes are drawn from bounded sets, and the name
\* updateUIName passes for its message.
\* ------------------------------------------------------------------------

MaxNodes == 2

MaxElems == 2

DomNodes ==
    { IconNode, TextNode(<<" ">>), TextNode(<<"M">>), TextNode(<<" ", "M", " ">>),
      TextNode(Bob) }

\* the child nodes of one element
DomElements ==
    UNION { [1..n -> DomNodes] : n \in 0..MaxNodes }

\* the message block: the distinct elements the selector list finds, in the
\* order of the list
DomBlocks ==
    { [present |-> TRUE, elems |-> elems] :
        elems \in UNION { [1..n -> DomElements] : n \in 0..MaxElems } }

DomNames == { <<"M">>, Bob }

InitDom ==
    /\ interval = "cleared"
    /\ attempts = 0
    /\ hostReady = TRUE
    /\ host = HostProfile(TRUE, TRUE, "ok", "ok", TRUE, TRUE)
    /\ characters = << >>
    /\ characterId = 0
    /\ groupId = FALSE
    /\ name2 = Empty
    /\ \E n \in DomNames :
         chat = << Message(Undefined, Undefined, Undefined, n, FALSE, FALSE) >>
    /\ \E block \in DomBlocks : dom = << block >>
    /\ nameCache = EmptyCache
    /\ chatObserver = FALSE
    /\ records = {}
    /\ initialized = FALSE
    /\ eventListenersAttached = FALSE
    /\ listeners = [e \in Events |-> 0]
    /\ inputField = FALSE
    /\ inputValue = Empty
    /\ macroNew = FALSE
    /\ macroLegacy = FALSE
    /\ macroResult = Undefined
    /\ writes = {}
    /\ lastOp = "start"
    /\ resolved = NotCalled
    /\ promptData = NoPrompt

\* applyNameOverrideToElement(messageElement, message.name) is called
ApplyOverride ==
    /\ lastOp = "start"
    /\ LET r == applyNameOverrideToElement(dom[1], MessageName(chat[1]))
       IN  /\ dom' = << [dom[1] EXCEPT !.elems = r.elems] >>
           /\ writes' = IF r.wrote = 1 THEN {1} ELSE {}
    /\ lastOp' = "applyNameOverrideToElement"
    /\ UNCHANGED << pollVars, hostVars, characters, characterId, groupId, name2, chat,
                    nameCache, chatObserver, records, initialized,
                    eventListenersAttached, listeners, uiVars, macroVars,
                    macroResult, resolved, promptData >>

NextDom == ApplyOverride

SpecDom == InitDom /\ [][NextDom]_vars

\* ------------------------------------------------------------------------
\* One pass of syncChatData on its own: an empty name cache, a context and
\* a transcript of untouched character messages drawn from bounded sets,
\* among them messages that carry the same avatar string under different
\* author names or original avatars.  Before or after the pass the host
\* emits GENERATE_BEFORE_COMBINE_PROMPTS once; its handler reads the
\* character list and the selected character and writes only the event's
\* data object.
\* ------------------------------------------------------------------------

MaxPass == 2

PassMessages ==
    { Message(a, Undefined, o, n, FALSE, FALSE) :
        a \in {Undefined, <<"a">>, <<"b", "?", "1">>, <<"z">>},
        o \in {Undefined, <<"b">>},
        n \in {Bob, <<"Z">>} }

PassTranscripts ==
    UNION { [1..n -> PassMessages] : n \in 1..MaxPass }

\* ctx.name2 as the host left it: nothing, a card name, a group member
PassName2 == { Empty, Bob, <<"G">> }

\* the name2 the host puts into its prompt data
PromptNames == { Undefined, Empty, Bob, <<"G">> }

InitPass ==
    /\ interval = "cleared"
    /\ attempts = 0
    /\ hostReady = TRUE
    /\ host = HostProfile(TRUE, TRUE, "ok", "ok", TRUE, TRUE)
    /\ characters \in {cs \in CharacterLists : Len(cs) > 0}
    /\ characterId \in 0..Len(characters)
    /\ groupId \in BOOLEAN
    /\ name2 \in PassName2
    /\ chat \in PassTranscripts
    /\ dom = [i \in 1..Len(chat) |-> LeafBlock(chat[i].name)]
    /\ nameCache = EmptyCache
    /\ chatObserver = FALSE
    /\ records = {}
    /\ initialized = TRUE
    /\ eventListenersAttached = TRUE
    /\ listeners = [e \in Events |-> 1]
    /\ inputField = FALSE
    /\ inputValue = Empty
    /\ macroNew = FALSE
    /\ macroLegacy = FALSE
    /\ macroResult = Undefined
    /\ writes = {}
    /\ lastOp = "start"
    /\ resolved = NotCalled
    /\ promptData = NoPrompt

\* syncChatData runs once
SyncOnce ==
    /\ lastOp = "start"
    /\ Store(syncChatData(X))
    /\ lastOp' = "syncChatData"
    /\ UNCHANGED << pollVars, hostVars, characters, characterId, groupId,
                    initialized, eventListenersAttached, listeners, uiVars,
                    macroVars, macroResult, resolved, promptData >>

\* GENERATE_BEFORE_COMBINE_PROMPTS: handleGenerateBeforePrompt(data)
GenerateBeforePrompt ==
    /\ promptData = NoPrompt
    /\ \E n \in PromptNames :
         promptData' = handleGenerateBeforePrompt(characters, characterId, PromptData(n))
    /\ lastOp' = "handleGenerateBeforePrompt"
    /\ UNCHANGED << pollVars, hostVars, characters, characterId, groupId, name2,
                    chat, dom, nameCache, chatObserver, records, initialized,
                    eventListenersAttached, listeners, uiVars, macroVars,
                    macroResult, writes, resolved >>

NextPass == SyncOnce \/ GenerateBeforePrompt

SpecPass == InitPass /\ [][NextPass]_vars

\* ------------------------------------------------------------------------
\* The name hook of the reduced build (src/index.js).  A character carries
\*   name          the plain data property 'name' (dead once the accessor
\*                 is installed)
\*   hooked        _chatNameHooked
\*   originalName  _originalName
\*   installs      how often Object.defineProperty has run on it
\*   card          the name the host gave the card, by creating it or by
\*                 its last assignment to name
\* ------------------------------------------------------------------------

CharacterIdx(name, chatName) ==
    [avatar |-> <<"a">>, name |-> name, chatName |-> chatName, hooked |-> FALSE,
     originalName |-> Undefined, installs |-> 0, card |-> name]

HookOverrides == { Undefined, Empty, <<" ">>, <<" ", "M", " ">> }

\* names the host assigns to a card
AssignedNames == { <<"N">>, Empty }

\* char.name read by a caller; fromMacros: the call stack holds
\* evaluateMacros, substituteParams or MacrosParser
readNameIdx(char, fromMacros) ==
    IF ~char.hooked THEN char.name
    ELSE IF fromMacros /\ Truthy(trim(char.chatName)) THEN trim(char.chatName)
    ELSE char.originalName

\* char.name = value
assignNameIdx(char, value) ==
    IF char.hooked THEN [char EXCEPT !.originalName = value, !.card = value]
    ELSE [char EXCEPT !.name = value, !.card = value]

hookCharacterNameIdx_rehook(chars, cid) ==
    IF getSelectedCharacter(chars, cid) = Null THEN chars
    ELSE [chars EXCEPT ![cid] =
            [@ EXCEPT !.originalName = IF Truthy(@) THEN @
                                       ELSE readNameIdx(chars[cid], FALSE),
                      !.installs = @ + 1,
                      !.hooked = TRUE]]

\* hookCharacterName
hookCharacterNameIdx(chars, cid) ==
    IF getSelectedCharacter(chars, cid) = Null THEN chars
    ELSE IF chars[cid].hooked THEN chars
    ELSE [chars EXCEPT ![cid] =
            [@ EXCEPT !.originalName = IF Truthy(@) THEN @ ELSE chars[cid].name,
                      !.installs = @ + 1,
                      !.hooked = TRUE]]

InitHook ==
    /\ interval = "cleared"
    /\ attempts = 0
    /\ hostReady = TRUE
    /\ host = HostProfile(TRUE, TRUE, "ok", "ok", TRUE, TRUE)
    /\ \E o \in HookOverrides :
         characters = << CharacterIdx(Bob, o), CharacterIdx(PadEd, Undefined) >>
    /\ characterId \in 0..2
    /\ groupId = FALSE
    /\ name2 = Empty
    /\ chat = <<>>
    /\ dom = <<>>
    /\ nameCache = EmptyCache
    /\ chatObserver = FALSE
    /\ records = {}
    /\ initialized = TRUE
    /\ eventListenersAttached = TRUE
    /\ listeners = [e \in Events |-> IF e \in ContextEvents THEN 1 ELSE 0]
    /\ inputField = TRUE
    /\ inputValue = StoredChatName(characters, characterId)
    /\ macroNew = TRUE
    /\ macroLegacy = TRUE
    /\ macroResult = Undefined
    /\ writes = {}
    /\ lastOp = "start"
    /\ resolved = NotCalled
    /\ promptData = NoPrompt

hookFrame ==
    UNCHANGED << pollVars, hostVars, groupId, name2, chat, dom, nameCache,
                 chatObserver, records, initialized, eventListenersAttached,
                 listeners, macroVars, writes, resolved, promptData >>

\* handleCharacterChange of the reduced build, for CHAT_CHANGED or
\* CHARACTER_SELECTED with character cid (0: none) current
handleCharacterChangeIdx ==
    /\ \E cid \in 0..Len(characters) :
         /\ characterId' = cid
         /\ StoreUI(loadChatNameToField(addInputField(UI), characters, cid))
         /\ characters' = hookCharacterNameIdx(characters, cid)
    /\ macroResult' = Undefined
    /\ hookFrame
    /\ lastOp' = "handleCharacterChange"

\* handleInputChange of the reduced build: the user typed v
handleInputChangeIdx ==
    /\ inputField
    /\ \E v \in InputValues :
         /\ inputValue' = v
         /\ characters' = IF characterId # 0
                          THEN [characters EXCEPT ![characterId].chatName = v]
                          ELSE characters
    /\ macroResult' = Undefined
    /\ UNCHANGED << characterId, inputField >>
    /\ hookFrame
    /\ lastOp' = "handleInputChange"

\* some code reads the current character's name
ReadNameIdx ==
    /\ characterId # 0
    /\ \E fromMacros \in BOOLEAN :
         /\ macroResult' = readNameIdx(characters[characterId], fromMacros)
         /\ lastOp' = IF fromMacros THEN "ReadFromMacros" ELSE "ReadOutside"
    /\ UNCHANGED << characters, characterId, uiVars >>
    /\ hookFrame

\* the host assigns a name to a character
AssignNameIdx ==
    /\ \E i \in 1..Len(characters), v \in AssignedNames :
         characters' = [characters EXCEPT ![i] = assignNameIdx(@, v)]
    /\ macroResult' = Undefined
    /\ UNCHANGED << characterId, uiVars >>
    /\ hookFrame
    /\ lastOp' = "AssignName"

NextHook ==
    \/ handleCharacterChangeIdx
    \/ handleInputChangeIdx
    \/ ReadNameIdx
    \/ AssignNameIdx

SpecHook == InitHook /\ [][NextHook]_vars

\* ------------------------------------------------------------------------
\* Properties
\* ------------------------------------------------------------------------

\* the override has a character that is not whitespace
NonBlank(o) == o # Undefined /\ \E i \in 1..Len(o) : o[i] # " "

\* r is o without its leading and trailing whitespace
IsTrimOf(r, o) ==
    /\ r # Empty
    /\ r[1] # " "
    /\ r[Len(r)] # " "
    /\ \E i \in 0..(Len(o) - Len(r)) :
         /\ SubSeq(o, i + 1, i + Len(r)) = r
         /\ \A k \in 1..Len(o) : (k <= i \/ k > i + Len(r)) => o[k] = " "

\* the text the name element of a rendered block shows (undefined when the
\* block or its name element is missing)
DisplayedName(block) ==
    IF ~block.present \/ block.elems = <<>> THEN Undefined
    ELSE IF ChildElements(block.elems[1]) = 0 THEN textContent(block.elems[1])
    ELSE IF FirstTextChild(block.elems[1]) = 0 THEN Undefined
    ELSE block.elems[1][FirstTextChild(block.elems[1])].text

\* the block shows name t, or has nothing to show a name in
Shows(block, t) == DisplayedName(block) \in {Undefined, t}

\* the step taken last ran the Display Synchronizer as an event handler
SyncRun == lastOp \in {"MessageEvent", "ChatChanged", "CharacterSelected"}

\* the step taken last handled a context-change event (full refresh)
ContextChange == lastOp \in {"ChatChanged", "CharacterSelected"}

\* the character the untouched message i resolves to, in the current context
ResolvedCharacter(i) ==
    getCharacterForMessage(characters, characterId, groupId, Original(chat[i]))

\* C1: for every character, whatever its card name and override (absent,
\* empty, whitespace only, padded), getChatName returns the override without
\* its surrounding whitespace if that is non-blank, and the card name
\* otherwise.
C1_ResolvedName ==
    (macroResult # Undefined /\ characterId = 1) =>
        IF NonBlank(characters[1].chatName)
        THEN IsTrimOf(macroResult, characters[1].chatName)
        ELSE macroResult = characters[1].name

\* a padded override was resolved to its trimmed form
C1_Witness ==
    /\ characterId = 1
    /\ characters[1].chatName = <<" ", " ", "M", "e", " ">>
    /\ macroResult = <<"M", "e">>


\* C2 (as claimed): after any run of the Display Synchronizer, every
\* character-authored message whose character resolves reads, as its name
\* field, the character's current resolved name, and its rendered name
\* element shows the same text.
C2_SyncedAfterRun ==
    SyncRun =>
        \A i \in 1..Len(chat) :
            (CharacterAuthored(chat[i]) /\ ResolvedCharacter(i).tag = "character") =>
                /\ MessageName(chat[i]) = getChatName(characters, ResolvedCharacter(i))
                /\ Shows(dom[i], getChatName(characters, ResolvedCharacter(i)))

\* C3 (as claimed): a message already synchronized under an override shows
\* the card name again, in its name field and on screen, once the override
\* of its character is the empty string and a context-change event has run
\* the full refresh; the macro handler returns the card name as well.
C3_RevertAfterRefresh ==
    [][ContextChange' =>
        \A i \in 1..Len(chat') :
            (/\ Len(chat) = Len(chat')
             /\ chat[i].processed
             /\ CharacterAuthored(chat[i])
             /\ ResolvedCharacter(i).tag = "character"
             /\ ResolvedCharacter(i)' = ResolvedCharacter(i)
             /\ characters[ResolvedCharacter(i).id].chatName = Empty) =>
                /\ MessageName(chat'[i]) = characters[ResolvedCharacter(i).id].name
                /\ Shows(dom'[i], characters[ResolvedCharacter(i).id].name)
                /\ (characterId' = ResolvedCharacter(i).id =>
                        nameGetter' = characters[ResolvedCharacter(i).id].name)]_vars

\* C4 (as claimed): a second run of the synchronizer right after a first
\* one writes no DOM text and leaves messages, cache and DOM as they are.
C4_SecondRunIdle ==
    SyncRun =>
        /\ syncChatData(X).writes = {}
        /\ syncChatData(X).chat = chat
        /\ syncChatData(X).nameCache = nameCache
        /\ syncChatData(X).dom = dom

\* C5: a message flagged is_user or is_system never has its name redefined
\* (it is never in processedMessages, its name stays the plain property) and
\* no step of the extension writes its rendered name text.
C5_UserSystemUntouched ==
    \A i \in 1..Len(chat) :
        (chat[i].is_user \/ chat[i].is_system) =>
            /\ ~chat[i].processed
            /\ chat[i].chatName = Undefined
            /\ i \notin writes

\* a user message and a character message side by side, the character
\* message overridden and its name text written by the last step
C5_Witness ==
    /\ Len(chat) = 2
    /\ chat[1].is_user
    /\ chat[2].processed
    /\ 2 \in writes

\* C6: whenever the host calls the registered {{char}} handler, it returns
\* the resolved name of the character selected at that moment: the override
\* without surrounding whitespace if non-blank, else the card name.
C6_MacroCurrentCharacter ==
    (macroResult # Undefined /\ characterId # 0) =>
        IF NonBlank(characters[characterId].chatName)
        THEN IsTrimOf(macroResult, characters[characterId].chatName)
        ELSE macroResult = characters[characterId].name

\* the handler returned an override typed for the second character, which no
\* synchronization has seen yet (name2 still holds another name)
C6_Witness ==
    /\ characterId = 2
    /\ ~groupId
    /\ macroResult = <<"R">>
    /\ name2 # <<"R">>

\* C7 (as claimed): after a cache clear, the next resolution of every
\* message of a character with a non-blank override yields that override,
\* as the cached value of the message's resolution key and as the name
\* applied to the message.
C7_NewOverrideAfterClear ==
    ContextChange =>
        \A i \in 1..Len(chat) :
            (/\ CharacterAuthored(chat[i])
             /\ ResolvedCharacter(i).tag = "character"
             /\ NonBlank(characters[ResolvedCharacter(i).id].chatName)) =>
                /\ cacheKeyOf(Original(chat[i])) \in DOMAIN nameCache
                /\ nameCache[cacheKeyOf(Original(chat[i]))]
                     = trim(characters[ResolvedCharacter(i).id].chatName)
                /\ MessageName(chat[i])
                     = trim(characters[ResolvedCharacter(i).id].chatName)

\* C8: when a chat-changed or character-selected event has been handled,
\* every entry of the Name Cache is the name some message of the transcript
\* with that resolution key resolves to under the character data and the
\* context as they stand after the event; no older entry is left.
C8_CacheRebuiltOnContextChange ==
    [][ContextChange' =>
        \A k \in DOMAIN nameCache' :
            \E i \in 1..Len(chat') :
                /\ Len(chat) = Len(chat')
                /\ ~chat[i].is_user /\ ~chat[i].is_system
                /\ cacheKeyOf(chat[i]) = k
                /\ nameCache'[k] =
                     getChatName(characters',
                                 getCharacterForMessage(characters', characterId',
                                                        groupId', chat[i]))]_vars

\* a message was overridden while its character had no override (it is bound
\* to the card name) and the cache now holds the override typed since: the
\* entry under its key was dropped and computed again
C8_Witness ==
    \E i \in 1..Len(chat) :
        /\ ContextChange
        /\ chat[i].processed
        /\ chat[i].chatName = PadEd
        /\ cacheKeyOf(chat[i]) \in DOMAIN nameCache
        /\ nameCache[cacheKeyOf(chat[i])] = <<"R">>

\* C9 (as claimed): once a message's name is overridden, its resolution key
\* and the character it resolves to stay those of the untouched message.
C9_ResolutionUnchanged ==
    \A i \in 1..Len(chat) :
        chat[i].processed =>
            /\ cacheKeyOf(chat[i]) = cacheKeyOf(Original(chat[i]))
            /\ getCharacterForMessage(characters, characterId, groupId, chat[i])
                 = ResolvedCharacter(i)

\* C10: once initialized is set, a further call of initialize changes
\* nothing: no input field, macro registration, subscription, observer,
\* cache, message or DOM change.
C10_InitializeOnce ==
    [][lastOp' = "Reinitialize" =>
        UNCHANGED << inputField, inputValue, macroNew, macroLegacy, listeners,
                     eventListenersAttached, chatObserver, records, nameCache,
                     chat, dom, name2, initialized >>]_vars

\* initialize was called again while Ready, in a state where running its
\* steps once more would have rebuilt the cache differently
C10_Witness ==
    /\ lastOp = "Reinitialize"
    /\ initialized
    /\ updateAllNames(X).nameCache # nameCache

\* the poll gave up: its last allowed tick found no host context
TimedOut == attempts = INIT_TIMEOUT \div INIT_CHECK_INTERVAL

\* C11: the startup poll ticks only while it is running and has failed fewer
\* than INIT_TIMEOUT / INIT_CHECK_INTERVAL times; a tick that finds the host
\* context cancels the poll and initializes, and initialization happens on
\* no other step; the last allowed tick cancels the poll without
\* initializing, and from then on nothing is ever set up, whatever the host
\* does later.
C11_PollBounded ==
    [][/\ lastOp' = "Tick" => (interval = "running" /\ ~TimedOut)
       /\ (lastOp' = "Tick" /\ hostReady) => (interval' = "cleared" /\ initialized')
       /\ initialized' # initialized => (lastOp' = "Tick" /\ hostReady)
       /\ attempts' <= INIT_TIMEOUT \div INIT_CHECK_INTERVAL
       /\ interval' = "running" => (~TimedOut' /\ ~initialized')
       /\ TimedOut' =>
            /\ interval' = "cleared"
            /\ ~initialized' /\ ~inputField' /\ ~macroNew' /\ ~macroLegacy'
            /\ ~eventListenersAttached' /\ ~chatObserver'
            /\ \A e \in Events : listeners'[e] = 0]_vars

\* the poll timed out and the host context became available afterwards
C11_Witness ==
    /\ TimedOut
    /\ interval = "cleared"
    /\ hostReady
    /\ ~initialized

\* C12 (as claimed): whenever initialized is set, every host event has
\* exactly one subscription, and right after the initializing tick every
\* character-authored message that resolves to a name has been synchronized.
C12_SubscribedOnceWhenReady ==
    initialized =>
        /\ \A e \in Events : listeners[e] = 1
        /\ lastOp = "Tick" =>
             \A i \in 1..Len(chat) :
                 (/\ CharacterAuthored(chat[i])
                  /\ Truthy(getChatName(characters, ResolvedCharacter(i)))) =>
                     chat[i].processed

\* the poll ended because a tick found the host context
PollSucceeded == hostReady /\ interval = "cleared" /\ ~TimedOut

\* C13: on every host, whether a macro engine is absent, takes the handler
\* or throws on registration, the tick that finds the host leaves the {{char}}
\* handler registered with every engine that takes it, and initialization
\* is completed.
C13_MacroRegistrationRobust ==
    PollSucceeded =>
        /\ initialized
        /\ host.macros = "ok" => macroNew
        /\ host.registerMacro = "ok" => macroLegacy

\* initialized on a host whose new engine threw: the legacy engine has the
\* handler
C13_Witness ==
    /\ initialized
    /\ host.macros = "throws"
    /\ ~macroNew
    /\ macroLegacy

\* the handlers the host's events and the mutation watcher invoke
Handlers == {"syncChatData", "handleCharacterChange", "updateUIName"}

\* one invocation of handler h on x; updateUIName stands for a watcher
\* callback that meets every message block
RunHandler(h, x) ==
    IF h = "syncChatData" THEN syncChatData(x)
    ELSE IF h = "handleCharacterChange"
         THEN setupChatObserver(updateAllNames(x), host.chatDiv)
    ELSE ObserveFrom(x, 1..Len(x.chat), 1)

RECURSIVE RunHandlers(_, _)
RunHandlers(hs, x) ==
    IF hs = <<>> THEN x ELSE RunHandlers(Tail(hs), RunHandler(Head(hs), x))

\* the invocation sequences of one or two handlers with a synchronization
\* among them
HandlerRuns ==
    { hs \in UNION { [1..n -> Handlers] : n \in 1..2 } :
        \E k \in DOMAIN hs : hs[k] # "updateUIName" }

\* what each message's name field reads and what its block shows
NamesOf(x) ==
    [i \in 1..Len(x.chat) |-> << MessageName(x.chat[i]), DisplayedName(x.dom[i]) >>]

\* C14 (as claimed): with the host data as they are, every sequence of
\* handler invocations that synchronizes at all leaves message names and
\* displayed names as one full synchronization would.
C14_HandlerOrderIndependent ==
    (Settled /\ initialized /\ eventListenersAttached) =>
        \A hs \in HandlerRuns :
            NamesOf(RunHandlers(hs, X)) = NamesOf(updateAllNames(X))

\* the message getCharacterForMessage was called on, its avatar key and its
\* trimmed author name
ResolvedMessage == chat[1]

AvatarKey == OrElse(ResolvedMessage.avatar,
                    OrElse(ResolvedMessage.force_avatar, ResolvedMessage.original_avatar))

AuthorName == trim(OrElse(ResolvedMessage.name, Empty))

\* character i matches the message by normalized avatar, by normalized
\* original avatar, by exact name, by containment of the names
AvatarMatches(i) ==
    /\ Truthy(normalizeAvatar(AvatarKey))
    /\ normalizeAvatar(characters[i].avatar) = normalizeAvatar(AvatarKey)

OriginalMatches(i) ==
    /\ Truthy(ResolvedMessage.original_avatar)
    /\ normalizeAvatar(characters[i].avatar) = normalizeAvatar(ResolvedMessage.original_avatar)

NameMatches(i) == Truthy(AuthorName) /\ characters[i].name = AuthorName

Contained(i) ==
    /\ Truthy(AuthorName)
    /\ \/ includes(AuthorName, trim(characters[i].name))
       \/ includes(trim(characters[i].name), AuthorName)

ShortName(i) == Len(trim(characters[i].name)) <= 2

\* C15 (as claimed): if some character's normalized avatar equals the
\* message's, getCharacterForMessage returns the first such character of the
\* list, whatever the names and the selected character are.
C15_AvatarMatchWins ==
    resolved # NotCalled =>
        \A i \in 1..Len(characters) :
            (AvatarMatches(i) /\ \A j \in 1..(i - 1) : ~AvatarMatches(j)) =>
                resolved = Found(i)

\* C16: a character whose trimmed name has two characters or fewer is
\* returned only if it matches by avatar, by original avatar or by exact
\* name, or is the selected character of a chat without group; containment
\* of the names alone never selects it.
C16_FuzzyGuard ==
    \A i \in 1..Len(characters) :
        (resolved = Found(i) /\ ShortName(i)) =>
            \/ AvatarMatches(i)
            \/ OriginalMatches(i)
            \/ NameMatches(i)
            \/ (characterId = i /\ ~groupId)

\* in a group chat the only character is "Al", the author name "Alex"
\* contains it, and the resolver has returned none
C16_Witness ==
    /\ resolved = Null
    /\ groupId
    /\ Len(characters) = 1
    /\ ShortName(1)
    /\ Contained(1)
    /\ AuthorName = <<"A", "l", "e", "x">>

\* C17 (as claimed): a message that matches no character by avatar, original
\* avatar, exact name or fuzzy name resolves to the selected character when
\* one is selected and no group is active, and to none otherwise.
C17_FallbackOrNone ==
    (/\ resolved # NotCalled
     /\ \A i \in 1..Len(characters) :
            /\ ~AvatarMatches(i)
            /\ ~OriginalMatches(i)
            /\ ~NameMatches(i)
            /\ ~(Contained(i) /\ ~ShortName(i))) =>
        resolved = IF characterId # 0 /\ ~groupId THEN Found(characterId) ELSE Null

\* the step ran syncChatData over the transcript it found: a message event,
\* a context change that kept the transcript, or the initializing tick
SyncPass ==
    /\ \/ SyncRun'
       \/ lastOp' = "Tick" /\ initialized' /\ ~initialized
    /\ Len(chat') = Len(chat)

\* getCharacterForMessage returns none for message i in the context of the
\* pass
Unresolvable(i) ==
    getCharacterForMessage(characters', characterId', groupId', chat[i]) = Null

\* C18: a pass of syncChatData raises no error on a transcript whose
\* character messages resolve or resolve to none, and a character-authored
\* message for which the resolver returns none keeps its name field and its
\* rendered block as they were, on the first pass and on every later one.
C18_UnresolvedSkipped ==
    [][SyncPass =>
          /\ ~syncChatData(X).thrown
          /\ \A i \in 1..Len(chat) :
                (CharacterAuthored(chat[i]) /\ Unresolvable(i)) =>
                    /\ chat'[i] = chat[i]
                    /\ dom'[i] = dom[i]
                    /\ i \notin writes']_vars

\* a pass has met a rendered character message that resolves to none: its
\* key is cached with the empty name and the message is not bound
C18_Witness ==
    /\ SyncRun
    /\ \E i \in 1..Len(chat) :
         /\ CharacterAuthored(chat[i])
         /\ getCharacterForMessage(characters, characterId, groupId, chat[i]) = Null
         /\ ~chat[i].processed
         /\ dom[i].present
         /\ cacheKeyOf(chat[i]) \in DOMAIN nameCache
         /\ nameCache[cacheKeyOf(chat[i])] = Empty

\* a text node with a character that is not whitespace
NonBlankText(n) == ~n.elem /\ \E c \in 1..Len(n.text) : n.text[c] # " "

\* element e has child elements but no non-blank text node among its children
PassedOver(e) ==
    /\ \E j \in 1..Len(e) : e[j].elem
    /\ \A j \in 1..Len(e) : ~NonBlankText(e[j])

\* f is element e after the one write the policy permits: its whole text if
\* it has no child elements, else its first non-blank child text node
WrittenAs(e, f, t) ==
    IF \A j \in 1..Len(e) : ~e[j].elem
    THEN f = SetTextContent(t)
    ELSE \E j \in 1..Len(e) :
            /\ NonBlankText(e[j])
            /\ \A h \in 1..(j - 1) : ~NonBlankText(e[h])
            /\ f = [e EXCEPT ![j].text = t]

C20_MemoizedUntilClear ==
    [][(\E k \in DOMAIN nameCache :
            k \notin DOMAIN nameCache' \/ nameCache'[k] # nameCache[k]) =>
          lastOp' \in {"ChatChanged", "CharacterSelected"}]_vars

\* after an edit of the override a message event has run syncChatData and
\* the entry of a message's key still holds the name cached before the
\* edit, not the name the message's character has now
C20_Witness ==
    /\ lastOp = "MessageEvent"
    /\ \E i \in 1..Len(chat) :
         /\ CharacterAuthored(chat[i])
         /\ Truthy(chat[i].avatar)
         /\ ResolvedCharacter(i).tag = "character"
         /\ cacheKeyOf(chat[i]) \in DOMAIN nameCache
         /\ nameCache[cacheKeyOf(chat[i])]
              # getChatName(characters, ResolvedCharacter(i))

\* C21 (as claimed): whenever mutation records are pending for the watcher
\* (from a host mutation or from the extension's own write), the extension
\* reaches, after finitely many watcher firings and writes, a state with no
\* pending record, where the watcher does not fire and nothing is written.
C21_WatcherQuiesces == (records # {}) ~> (records = {})

\* the name resolving message i directly gives: getCharacterForMessage on
\* the untouched message, then getChatName, with no cache
DirectName(i) == getChatName(characters, ResolvedCharacter(i))

\* C22 (as claimed): after one pass of syncChatData that started with an
\* empty cache, every character message reads the name its own direct
\* resolution gives, and is untouched when that resolution gives no name;
\* messages that share a cache key do not get each other's name.
C22_CacheCoherent ==
    lastOp = "syncChatData" =>
        \A i \in 1..Len(chat) :
            CharacterAuthored(chat[i]) =>
                IF Truthy(DirectName(i))
                THEN MessageName(chat[i]) = DirectName(i)
                ELSE chat[i] = Original(chat[i])

\* C23: in the reduced build a character has its accessor installed at most
\* once; a hooked character's name reads as the card name for callers
\* outside macro substitution and as the trimmed override (the card name
\* when the override is blank) from macro substitution; an assignment to
\* name changes no override, and the assigned name is what a hooked
\* character then reads as outside macro substitution.
C23_NameHook ==
    [][/\ \A i \in 1..Len(characters') :
            LET c == characters'[i]
            IN  /\ c.installs <= 1
                /\ c.hooked =>
                     /\ readNameIdx(c, FALSE) = c.card
                     /\ IF NonBlank(c.chatName)
                        THEN IsTrimOf(readNameIdx(c, TRUE), c.chatName)
                        ELSE readNameIdx(c, TRUE) = c.card
       /\ lastOp' = "ReadOutside" /\ characters[characterId].hooked =>
            macroResult' = characters[characterId].card
       /\ lastOp' = "AssignName" =>
            \A i \in 1..Len(characters) :
                /\ characters'[i].chatName = characters[i].chatName
                /\ characters'[i].hooked = characters[i].hooked
                /\ characters'[i].installs = characters[i].installs]_vars

\* macro substitution has read the name of a hooked character that was
\* given the name "N" after the hook was installed and whose override was
\* typed since: it got the trimmed override
C23_Witness ==
    /\ lastOp = "ReadFromMacros"
    /\ characterId = 1
    /\ characters[1].hooked
    /\ characters[1].installs = 1
    /\ characters[1].name = Bob
    /\ characters[1].card = <<"N">>
    /\ characters[1].chatName = <<" ", "R", " ">>
    /\ macroResult = <<"R">>

\* r is the resolved name of the selected character: its override without
\* surrounding whitespace if that is non-blank, else its card name
IsSelectedName(r) ==
    /\ characterId # 0
    /\ IF NonBlank(characters[characterId].chatName)
       THEN IsTrimOf(r, characters[characterId].chatName)
       ELSE r = characters[characterId].name

\* C24: a pass of syncChatData leaves ctx.name2 alone in a group chat and
\* when no character is selected, and otherwise leaves it equal to the
\* selected character's resolved name; handleGenerateBeforePrompt leaves
\* ctx.name2 alone and puts the selected character's resolved name into the
\* prompt data's name2 exactly when a character is selected and the data's
\* name2 was non-empty, and leaves the data as the host sent it otherwise.
C24_Name2Scope ==
    [][/\ lastOp' = "syncChatData" =>
            IF groupId \/ characterId = 0
            THEN name2' = name2
            ELSE IsSelectedName(name2')
       /\ lastOp' = "handleGenerateBeforePrompt" =>
            /\ name2' = name2
            /\ promptData'.sent
            /\ IF characterId # 0 /\ Truthy(promptData'.was)
               THEN IsSelectedName(promptData'.name2)
               ELSE promptData'.name2 = promptData'.was]_vars

\* in a group chat whose context names member "G", a pass has bound
\* messages and left ctx.name2 as it was, and the prompt handler has then
\* put the selected character's override into the prompt data
C24_Witness ==
    /\ lastOp = "handleGenerateBeforePrompt"
    /\ groupId
    /\ characterId = 1
    /\ name2 = <<"G">>
    /\ nameCache # EmptyCache
    /\ promptData.was = <<"G">>
    /\ promptData.name2 = <<"M">>

=============================================================================
